---- MODULE Spec2Model ----
(***************************************************************************)
(* A model of txh: the account state machine (src/client.rs), the          *)
(* transaction ledger and reconciliation engine (src/state.rs), the row    *)
(* conversion (src/records.rs) and the run loop (src/main.rs).             *)
(*                                                                         *)
(* Decimal amounts are modelled as integers: rust_decimal is exact on the  *)
(* values used here, and overflow of the 96-bit mantissa is out of reach   *)
(* of the bounds.  The two HashMaps are functions whose DOMAIN is the key  *)
(* set.                                                                    *)
(***************************************************************************)
EXTENDS Integers, Sequences, FiniteSets, TLC

\* ------------------------------------------------------------------ bounds
\* Calls of handle explored when the engine is driven by an event stream.
MaxEvents == 4
\* Rows of the input file read by main.
MaxRows == 2
\* The largest transaction id of the events.
MaxTx == 1

\* ClientId = u16 and TxId = u32 are only compared, never computed with.
\* Two clients give "the owner" and "another client".
ClientIds == {0, 1}
TxIds == 0..MaxTx
\* Decimal is signed: the Event type accepts negative amounts.
Amounts == {-1, 1, 2}

\* ------------------------------------------------------------------- state
VARIABLES
    transfers,      \* State.transfers: TxId -> Transaction
    client_states,  \* State.client_states: ClientId -> ClientState
    result,         \* what the last call of handle returned
    last,           \* history: the event of the last call of handle
    prev,           \* history: the two maps before the last call of handle
    applied,        \* history: clients with a Deposit/Withdrawal whose transition succeeded
    handled,        \* history: number of calls of handle so far
    input,          \* main: the rows of the input file
    pos,            \* main: index of the next row to read
    pc,             \* main: position in main ("lib" when handle is driven directly)
    log,            \* main, history: the calls of handle, <<event, result>>
    report          \* main: the rows written to stdout so far

vars == <<transfers, client_states, result, last, prev, applied, handled,
          input, pos, pc, log, report>>

EmptyMap == [k \in {} |-> 0]

\* HashMap::insert / entry().or_insert(): the map with k bound to v.
MapPut(m, k, v) == [x \in (DOMAIN m) \cup {k} |-> IF x = k THEN v ELSE m[x]]

\* ----------------------------------------------------------- src/client.rs
\* #[derive(Default)] ClientState
ClientState_default == [frozen |-> FALSE, available |-> 0, held |-> 0]

Transition_Deposit(amount) == [t |-> "Deposit", amount |-> amount]
Transition_Withdrawal(amount) == [t |-> "Withdrawal", amount |-> amount]
Transition_DisputeDeposit(amount) == [t |-> "DisputeDeposit", amount |-> amount]
Transition_DisputeWithdrawal(amount) == [t |-> "DisputeWithdrawal", amount |-> amount]
Transition_Resolve(amount) == [t |-> "Resolve", amount |-> amount]
Transition_Chargeback == [t |-> "Chargeback", amount |-> 0]

ApplyOk(s) == [ok |-> TRUE, state |-> s, err |-> "none"]
ApplyErr(e) == [ok |-> FALSE, state |-> ClientState_default, err |-> e]

total(self) == self.available + self.held

\* A Resolve that gives the funds back to available without releasing the hold.
apply_resolve_keeps_hold(self, transition) ==
    IF self.frozen THEN ApplyErr("ClientFrozen")
    ELSE CASE transition.t = "Chargeback" -> ApplyOk([self EXCEPT !.frozen = TRUE])
           [] transition.t = "Deposit" ->
                ApplyOk([self EXCEPT !.available = @ + transition.amount])
           [] transition.t = "Withdrawal" ->
                IF self.available < transition.amount
                THEN ApplyErr("InsufficientFunds")
                ELSE ApplyOk([self EXCEPT !.available = @ - transition.amount])
           [] transition.t = "DisputeDeposit" ->
                IF self.available < transition.amount
                THEN ApplyErr("InsufficientFunds")
                ELSE ApplyOk([self EXCEPT !.available = @ - transition.amount,
                                          !.held = @ + transition.amount])
           [] transition.t = "DisputeWithdrawal" ->
                ApplyOk([self EXCEPT !.held = @ + transition.amount])
           [] transition.t = "Resolve" ->
                ApplyOk([self EXCEPT !.available = @ + transition.amount])

\* A Withdrawal that skips the funds check and overdraws the account.
apply_no_funds_check(self, transition) ==
    IF self.frozen THEN ApplyErr("ClientFrozen")
    ELSE CASE transition.t = "Chargeback" -> ApplyOk([self EXCEPT !.frozen = TRUE])
           [] transition.t = "Deposit" ->
                ApplyOk([self EXCEPT !.available = @ + transition.amount])
           [] transition.t = "Withdrawal" ->
                ApplyOk([self EXCEPT !.available = @ - transition.amount])
           [] transition.t = "DisputeDeposit" ->
                IF self.available < transition.amount
                THEN ApplyErr("InsufficientFunds")
                ELSE ApplyOk([self EXCEPT !.available = @ - transition.amount,
                                          !.held = @ + transition.amount])
           [] transition.t = "DisputeWithdrawal" ->
                ApplyOk([self EXCEPT !.held = @ + transition.amount])
           [] transition.t = "Resolve" ->
                ApplyOk([self EXCEPT !.available = @ + transition.amount,
                                     !.held = @ - transition.amount])

\* A Deposit that assigns the amount to available instead of adding it.
apply_deposit_assigns(self, transition) ==
    IF self.frozen THEN ApplyErr("ClientFrozen")
    ELSE CASE transition.t = "Chargeback" -> ApplyOk([self EXCEPT !.frozen = TRUE])
           [] transition.t = "Deposit" ->
                ApplyOk([self EXCEPT !.available = transition.amount])
           [] transition.t = "Withdrawal" ->
                IF self.available < transition.amount
                THEN ApplyErr("InsufficientFunds")
                ELSE ApplyOk([self EXCEPT !.available = @ - transition.amount])
           [] transition.t = "DisputeDeposit" ->
                IF self.available < transition.amount
                THEN ApplyErr("InsufficientFunds")
                ELSE ApplyOk([self EXCEPT !.available = @ - transition.amount,
                                          !.held = @ + transition.amount])
           [] transition.t = "DisputeWithdrawal" ->
                ApplyOk([self EXCEPT !.held = @ + transition.amount])
           [] transition.t = "Resolve" ->
                ApplyOk([self EXCEPT !.available = @ + transition.amount,
                                     !.held = @ - transition.amount])

\* A Withdrawal that refuses to take the whole available balance.
apply_withdrawal_strict(self, transition) ==
    IF self.frozen THEN ApplyErr("ClientFrozen")
    ELSE CASE transition.t = "Chargeback" -> ApplyOk([self EXCEPT !.frozen = TRUE])
           [] transition.t = "Deposit" ->
                ApplyOk([self EXCEPT !.available = @ + transition.amount])
           [] transition.t = "Withdrawal" ->
                IF self.available <= transition.amount
                THEN ApplyErr("InsufficientFunds")
                ELSE ApplyOk([self EXCEPT !.available = @ - transition.amount])
           [] transition.t = "DisputeDeposit" ->
                IF self.available < transition.amount
                THEN ApplyErr("InsufficientFunds")
                ELSE ApplyOk([self EXCEPT !.available = @ - transition.amount,
                                          !.held = @ + transition.amount])
           [] transition.t = "DisputeWithdrawal" ->
                ApplyOk([self EXCEPT !.held = @ + transition.amount])
           [] transition.t = "Resolve" ->
                ApplyOk([self EXCEPT !.available = @ + transition.amount,
                                     !.held = @ - transition.amount])

\* ClientState::apply
apply(self, transition) ==
    IF self.frozen THEN ApplyErr("ClientFrozen")
    ELSE CASE transition.t = "Chargeback" -> ApplyOk([self EXCEPT !.frozen = TRUE])
           [] transition.t = "Deposit" ->
                ApplyOk([self EXCEPT !.available = @ + transition.amount])
           [] transition.t = "Withdrawal" ->
                IF self.available < transition.amount
                THEN ApplyErr("InsufficientFunds")
                ELSE ApplyOk([self EXCEPT !.available = @ - transition.amount])
           [] transition.t = "DisputeDeposit" ->
                IF self.available < transition.amount
                THEN ApplyErr("InsufficientFunds")
                ELSE ApplyOk([self EXCEPT !.available = @ - transition.amount,
                                          !.held = @ + transition.amount])
           [] transition.t = "DisputeWithdrawal" ->
                ApplyOk([self EXCEPT !.held = @ + transition.amount])
           [] transition.t = "Resolve" ->
                ApplyOk([self EXCEPT !.available = @ + transition.amount,
                                     !.held = @ - transition.amount])

\* ------------------------------------------------------ src/transaction.rs
Transaction_deposit(client, amount) ==
    [kind |-> "Deposit", client |-> client, amount |-> amount, has_dispute |-> FALSE]

Transaction_withdrawal(client, amount) ==
    [kind |-> "Withdrawal", client |-> client, amount |-> amount, has_dispute |-> FALSE]

\* ------------------------------------------------------------ src/event.rs
Event_deposit(client, tx, amount) ==
    [kind |-> "Deposit", client |-> client, tx |-> tx, amount |-> amount]
Event_withdrawal(client, tx, amount) ==
    [kind |-> "Withdrawal", client |-> client, tx |-> tx, amount |-> amount]
Event_dispute(client, tx) == [kind |-> "Dispute", client |-> client, tx |-> tx]
Event_resolve(client, tx) == [kind |-> "Resolve", client |-> client, tx |-> tx]
Event_chargeback(client, tx) == [kind |-> "Chargeback", client |-> client, tx |-> tx]

Event ==
    {Event_deposit(c, tx, a) : c \in ClientIds, tx \in TxIds, a \in Amounts}
    \cup {Event_withdrawal(c, tx, a) : c \in ClientIds, tx \in TxIds, a \in Amounts}
    \cup {Event_dispute(c, tx) : c \in ClientIds, tx \in TxIds}
    \cup {Event_resolve(c, tx) : c \in ClientIds, tx \in TxIds}
    \cup {Event_chargeback(c, tx) : c \in ClientIds, tx \in TxIds}

NoEvent == [kind |-> "None"]

\* ------------------------------------------------------------ src/state.rs
Ok == [ok |-> TRUE]
DuplicateTxId(tx) == [ok |-> FALSE, err |-> "DuplicateTxId", tx |-> tx]

Out(t, cs, r) == [transfers |-> t, client_states |-> cs, result |-> r]

\* self.client_states.entry(client).or_default()
entry_or_default(cs, client) ==
    IF client \in DOMAIN cs THEN cs ELSE MapPut(cs, client, ClientState_default)

\* A Deposit arm that looks the tx id up before it tries the transition.
handle_Deposit_checks_id_first(t, cs, event) ==
    LET cs1 == entry_or_default(cs, event.client)
        r == apply(cs1[event.client], Transition_Deposit(event.amount))
    IN  IF event.tx \in DOMAIN t
        THEN Out(t, cs1, DuplicateTxId(event.tx))
        ELSE IF r.ok
             THEN Out(MapPut(t, event.tx, Transaction_deposit(event.client, event.amount)),
                      [cs1 EXCEPT ![event.client] = r.state], Ok)
             ELSE Out(t, cs1, Ok)

\* A Deposit arm that records the transfer but does not keep the account.
handle_Deposit_drops_account(t, cs, event) ==
    LET cs1 == entry_or_default(cs, event.client)
        r == apply(cs1[event.client], Transition_Deposit(event.amount))
    IN  IF r.ok
        THEN Out(MapPut(t, event.tx, Transaction_deposit(event.client, event.amount)),
                 cs,
                 IF event.tx \in DOMAIN t THEN DuplicateTxId(event.tx) ELSE Ok)
        ELSE Out(t, cs1, Ok)

\* State::handle, arm Event::Deposit
handle_Deposit(t, cs, event) ==
    LET cs1 == entry_or_default(cs, event.client)
        r == apply(cs1[event.client], Transition_Deposit(event.amount))
    IN  IF r.ok
        THEN Out(MapPut(t, event.tx, Transaction_deposit(event.client, event.amount)),
                 [cs1 EXCEPT ![event.client] = r.state],
                 IF event.tx \in DOMAIN t THEN DuplicateTxId(event.tx) ELSE Ok)
        ELSE Out(t, cs1, Ok)

\* State::handle, arm Event::Withdrawal
handle_Withdrawal(t, cs, event) ==
    LET cs1 == entry_or_default(cs, event.client)
        r == apply(cs1[event.client], Transition_Withdrawal(event.amount))
    IN  IF r.ok
        THEN Out(MapPut(t, event.tx, Transaction_withdrawal(event.client, event.amount)),
                 [cs1 EXCEPT ![event.client] = r.state],
                 IF event.tx \in DOMAIN t THEN DuplicateTxId(event.tx) ELSE Ok)
        ELSE Out(t, cs1, Ok)

\* A Chargeback arm that asks for an active dispute, as Resolve does.
handle_Chargeback_needs_dispute(t, cs, event) ==
    IF event.tx \in DOMAIN t /\ t[event.tx].kind = "Deposit"
    THEN IF event.client # t[event.tx].client \/ ~t[event.tx].has_dispute
         THEN Out(t, cs, Ok)
         ELSE IF event.client \in DOMAIN cs
              THEN LET r == apply(cs[event.client], Transition_Chargeback)
                   IN  IF r.ok
                       THEN Out(t, [cs EXCEPT ![event.client] = r.state], Ok)
                       ELSE Out(t, cs, Ok)
              ELSE Out(t, cs, Ok)
    ELSE Out(t, cs, Ok)

\* A Chargeback arm that matches any record, not only a Deposit.
handle_Chargeback_any_kind(t, cs, event) ==
    IF event.tx \in DOMAIN t
    THEN IF event.client # t[event.tx].client
         THEN Out(t, cs, Ok)
         ELSE IF event.client \in DOMAIN cs
              THEN LET r == apply(cs[event.client], Transition_Chargeback)
                   IN  IF r.ok
                       THEN Out(t, [cs EXCEPT ![event.client] = r.state], Ok)
                       ELSE Out(t, cs, Ok)
              ELSE Out(t, cs, Ok)
    ELSE Out(t, cs, Ok)

\* A Chargeback arm that also closes the dispute of the record it charges back.
handle_Chargeback_closes_dispute(t, cs, event) ==
    IF event.tx \in DOMAIN t /\ t[event.tx].kind = "Deposit"
    THEN IF event.client # t[event.tx].client
         THEN Out(t, cs, Ok)
         ELSE IF event.client \in DOMAIN cs
              THEN LET r == apply(cs[event.client], Transition_Chargeback)
                   IN  IF r.ok
                       THEN Out([t EXCEPT ![event.tx].has_dispute = FALSE],
                                [cs EXCEPT ![event.client] = r.state], Ok)
                       ELSE Out(t, cs, Ok)
              ELSE Out(t, cs, Ok)
    ELSE Out(t, cs, Ok)

\* State::handle, arm Event::Chargeback
handle_Chargeback(t, cs, event) ==
    IF event.tx \in DOMAIN t /\ t[event.tx].kind = "Deposit"
    THEN IF event.client # t[event.tx].client
         THEN Out(t, cs, Ok)
         ELSE IF event.client \in DOMAIN cs
              THEN LET r == apply(cs[event.client], Transition_Chargeback)
                   IN  IF r.ok
                       THEN Out(t, [cs EXCEPT ![event.client] = r.state], Ok)
                       ELSE Out(t, cs, Ok)
              ELSE Out(t, cs, Ok)
    ELSE Out(t, cs, Ok)

\* A Dispute arm that sets has_dispute before it knows the transition succeeded.
handle_Dispute_marks_first(t, cs, event) ==
    IF event.tx \in DOMAIN t
    THEN LET rec == t[event.tx]
         IN  IF event.client # rec.client \/ rec.has_dispute
             THEN Out(t, cs, Ok)
             ELSE IF event.client \in DOMAIN cs
                  THEN LET r == apply(cs[event.client],
                                      IF rec.kind = "Deposit"
                                      THEN Transition_DisputeDeposit(rec.amount)
                                      ELSE Transition_DisputeWithdrawal(rec.amount))
                       IN  IF r.ok
                           THEN Out([t EXCEPT ![event.tx].has_dispute = TRUE],
                                    [cs EXCEPT ![event.client] = r.state], Ok)
                           ELSE Out([t EXCEPT ![event.tx].has_dispute = TRUE], cs, Ok)
                  ELSE Out(t, cs, Ok)
    ELSE Out(t, cs, Ok)

\* A Dispute arm that holds the amount of a deposit without taking it from available.
handle_Dispute_deposit_as_withdrawal(t, cs, event) ==
    IF event.tx \in DOMAIN t
    THEN LET rec == t[event.tx]
         IN  IF event.client # rec.client \/ rec.has_dispute
             THEN Out(t, cs, Ok)
             ELSE IF event.client \in DOMAIN cs
                  THEN LET r == apply(cs[event.client],
                                      Transition_DisputeWithdrawal(rec.amount))
                       IN  IF r.ok
                           THEN Out([t EXCEPT ![event.tx].has_dispute = TRUE],
                                    [cs EXCEPT ![event.client] = r.state], Ok)
                           ELSE Out(t, cs, Ok)
                  ELSE Out(t, cs, Ok)
    ELSE Out(t, cs, Ok)

\* A Dispute arm that treats a withdrawal as a deposit: funds check, and the
\* amount moved out of available.
handle_Dispute_withdrawal_as_deposit(t, cs, event) ==
    IF event.tx \in DOMAIN t
    THEN LET rec == t[event.tx]
         IN  IF event.client # rec.client \/ rec.has_dispute
             THEN Out(t, cs, Ok)
             ELSE IF event.client \in DOMAIN cs
                  THEN LET r == apply(cs[event.client],
                                      Transition_DisputeDeposit(rec.amount))
                       IN  IF r.ok
                           THEN Out([t EXCEPT ![event.tx].has_dispute = TRUE],
                                    [cs EXCEPT ![event.client] = r.state], Ok)
                           ELSE Out(t, cs, Ok)
                  ELSE Out(t, cs, Ok)
    ELSE Out(t, cs, Ok)

\* A Dispute arm that holds the funds but never marks the record.
handle_Dispute_leaves_flag(t, cs, event) ==
    IF event.tx \in DOMAIN t
    THEN LET rec == t[event.tx]
         IN  IF event.client # rec.client \/ rec.has_dispute
             THEN Out(t, cs, Ok)
             ELSE IF event.client \in DOMAIN cs
                  THEN LET r == apply(cs[event.client],
                                      IF rec.kind = "Deposit"
                                      THEN Transition_DisputeDeposit(rec.amount)
                                      ELSE Transition_DisputeWithdrawal(rec.amount))
                       IN  IF r.ok
                           THEN Out(t, [cs EXCEPT ![event.client] = r.state], Ok)
                           ELSE Out(t, cs, Ok)
                  ELSE Out(t, cs, Ok)
    ELSE Out(t, cs, Ok)

\* State::handle, arm Event::Dispute
handle_Dispute(t, cs, event) ==
    IF event.tx \in DOMAIN t
    THEN LET rec == t[event.tx]
         IN  IF event.client # rec.client \/ rec.has_dispute
             THEN Out(t, cs, Ok)
             ELSE IF event.client \in DOMAIN cs
                  THEN LET r == apply(cs[event.client],
                                      IF rec.kind = "Deposit"
                                      THEN Transition_DisputeDeposit(rec.amount)
                                      ELSE Transition_DisputeWithdrawal(rec.amount))
                       IN  IF r.ok
                           THEN Out([t EXCEPT ![event.tx].has_dispute = TRUE],
                                    [cs EXCEPT ![event.client] = r.state], Ok)
                           ELSE Out(t, cs, Ok)
                  ELSE Out(t, cs, Ok)
    ELSE Out(t, cs, Ok)

\* A Resolve arm that forgets to clear has_dispute.
handle_Resolve_keeps_flag(t, cs, event) ==
    IF event.tx \in DOMAIN t
    THEN LET rec == t[event.tx]
         IN  IF event.client # rec.client \/ ~rec.has_dispute
             THEN Out(t, cs, Ok)
             ELSE IF rec.client \in DOMAIN cs
                  THEN LET r == apply(cs[rec.client], Transition_Resolve(rec.amount))
                       IN  IF r.ok
                           THEN Out(t, [cs EXCEPT ![rec.client] = r.state], Ok)
                           ELSE Out(t, cs, Ok)
                  ELSE Out(t, cs, Ok)
    ELSE Out(t, cs, Ok)

\* State::handle, arm Event::Resolve
handle_Resolve(t, cs, event) ==
    IF event.tx \in DOMAIN t
    THEN LET rec == t[event.tx]
         IN  IF event.client # rec.client \/ ~rec.has_dispute
             THEN Out(t, cs, Ok)
             ELSE IF rec.client \in DOMAIN cs
                  THEN LET r == apply(cs[rec.client], Transition_Resolve(rec.amount))
                       IN  IF r.ok
                           THEN Out([t EXCEPT ![event.tx].has_dispute = FALSE],
                                    [cs EXCEPT ![rec.client] = r.state], Ok)
                           ELSE Out(t, cs, Ok)
                  ELSE Out(t, cs, Ok)
    ELSE Out(t, cs, Ok)

\* State::handle
handle(t, cs, event) ==
    CASE event.kind = "Deposit" -> handle_Deposit(t, cs, event)
      [] event.kind = "Withdrawal" -> handle_Withdrawal(t, cs, event)
      [] event.kind = "Chargeback" -> handle_Chargeback(t, cs, event)
      [] event.kind = "Dispute" -> handle_Dispute(t, cs, event)
      [] event.kind = "Resolve" -> handle_Resolve(t, cs, event)

\* History: the `if let Ok(next_state)` branch of a Deposit/Withdrawal arm was taken.
Accepted(cs, event) ==
    /\ event.kind \in {"Deposit", "Withdrawal"}
    /\ apply(entry_or_default(cs, event.client)[event.client],
             IF event.kind = "Deposit"
             THEN Transition_Deposit(event.amount)
             ELSE Transition_Withdrawal(event.amount)).ok

\* One call of State::handle on the engine's state, with the history it leaves.
Call(event) ==
    LET out == handle(transfers, client_states, event)
    IN  /\ transfers' = out.transfers
        /\ client_states' = out.client_states
        /\ result' = out.result
        /\ last' = event
        /\ prev' = [transfers |-> transfers, client_states |-> client_states]
        /\ applied' = IF Accepted(client_states, event)
                      THEN applied \cup {event.client} ELSE applied
        /\ handled' = handled + 1

\* State::new
State_new ==
    /\ transfers = EmptyMap
    /\ client_states = EmptyMap
    /\ result = Ok
    /\ last = NoEvent
    /\ prev = [transfers |-> EmptyMap, client_states |-> EmptyMap]
    /\ applied = {}
    /\ handled = 0

\* ------------------------------------- the engine driven by any event stream
\* (state.rs, handle_multiple: `for e in stream { self.handle(e)?; }`)
Init ==
    /\ State_new
    /\ input = <<>>
    /\ pos = 1
    /\ pc = "lib"
    /\ log = <<>>
    /\ report = <<>>

MainUnchanged == UNCHANGED <<input, pos, pc, log, report>>

\* The stream goes on until a call returns an error: main and the tests'
\* handle_multiple both leave with `?` at the first DuplicateTxId.
Running == pc = "lib" /\ result.ok /\ handled < MaxEvents

Deposit ==
    /\ Running
    /\ \E c \in ClientIds, tx \in TxIds, a \in Amounts : Call(Event_deposit(c, tx, a))
    /\ MainUnchanged

Withdrawal ==
    /\ Running
    /\ \E c \in ClientIds, tx \in TxIds, a \in Amounts : Call(Event_withdrawal(c, tx, a))
    /\ MainUnchanged

Chargeback ==
    /\ Running
    /\ \E c \in ClientIds, tx \in TxIds : Call(Event_chargeback(c, tx))
    /\ MainUnchanged

Dispute ==
    /\ Running
    /\ \E c \in ClientIds, tx \in TxIds : Call(Event_dispute(c, tx))
    /\ MainUnchanged

Resolve ==
    /\ Running
    /\ \E c \in ClientIds, tx \in TxIds : Call(Event_resolve(c, tx))
    /\ MainUnchanged

Next == Deposit \/ Withdrawal \/ Chargeback \/ Dispute \/ Resolve

Spec == Init /\ [][Next]_vars

\* ---------------------------------------------------------- src/records.rs
\* A line of the input file: de = FALSE when csv/serde cannot deserialize it
\* into an EventCsvRecord (an unparseable client, tx or amount).
EventCsvRecord(ty, client, tx, amount) ==
    [de |-> TRUE, ty |-> ty, client |-> client, tx |-> tx, amount |-> amount]

UnparseableRow ==
    [de |-> FALSE, ty |-> "deposit", client |-> 0, tx |-> 0, amount |-> 0]

\* The rows main is run on.  The amount column of a dispute, resolve or
\* chargeback row is read and then discarded by try_from.
Rows ==
    {EventCsvRecord(ty, c, tx, a) :
        ty \in {"deposit", "withdrawal"}, c \in ClientIds, tx \in TxIds, a \in Amounts}
    \cup {EventCsvRecord(ty, c, tx, 0) :
        ty \in {"dispute", "resolve", "chargeback"}, c \in ClientIds, tx \in TxIds}
    \cup {EventCsvRecord("Deposit", 0, 0, 1), UnparseableRow}

\* impl TryFrom<EventCsvRecord> for Event
try_from(value) ==
    CASE value.ty = "deposit" ->
            [ok |-> TRUE, event |-> Event_deposit(value.client, value.tx, value.amount)]
      [] value.ty = "withdrawal" ->
            [ok |-> TRUE, event |-> Event_withdrawal(value.client, value.tx, value.amount)]
      [] value.ty = "dispute" ->
            [ok |-> TRUE, event |-> Event_dispute(value.client, value.tx)]
      [] value.ty = "resolve" ->
            [ok |-> TRUE, event |-> Event_resolve(value.client, value.tx)]
      [] value.ty = "chargeback" ->
            [ok |-> TRUE, event |-> Event_chargeback(value.client, value.tx)]
      [] OTHER -> [ok |-> FALSE, event |-> NoEvent]

\* ClientCsvRecord, as main fills it in
ClientCsvRecord(client, state) ==
    [client |-> client, available |-> state.available, held |-> state.held,
     total |-> total(state), locked |-> state.frozen]

\* ------------------------------------------------------------- src/main.rs
SeqsUpTo(S, n) == UNION {[1..k -> S] : k \in 0..n}

MainInit ==
    /\ State_new
    /\ input \in SeqsUpTo(Rows, MaxRows)
    /\ pos = 1
    /\ pc = "loop"
    /\ log = <<>>
    /\ report = <<>>

EngineUnchanged ==
    UNCHANGED <<transfers, client_states, result, last, prev, applied, handled>>

\* `record?` or `Event::try_from(record)?` returns the error out of main.
MainRowError ==
    /\ pc = "loop" /\ pos <= Len(input)
    /\ \/ ~input[pos].de
       \/ ~try_from(input[pos]).ok
    /\ pos' = pos + 1
    /\ pc' = "aborted"
    /\ UNCHANGED <<input, log, report>>
    /\ EngineUnchanged

\* A loop body that drops the result of handle instead of returning it.
MainHandle_ignores_error ==
    /\ pc = "loop" /\ pos <= Len(input)
    /\ input[pos].de /\ try_from(input[pos]).ok
    /\ LET event == try_from(input[pos]).event
       IN  /\ Call(event)
           /\ log' = Append(log, [event |-> event, result |-> result'])
           /\ pc' = "loop"
    /\ pos' = pos + 1
    /\ UNCHANGED <<input, report>>

\* `state.handle(event)?`: one pass of the loop body on a row that converts.
MainHandle ==
    /\ pc = "loop" /\ pos <= Len(input)
    /\ input[pos].de /\ try_from(input[pos]).ok
    /\ LET event == try_from(input[pos]).event
       IN  /\ Call(event)
           /\ log' = Append(log, [event |-> event, result |-> result'])
           /\ pc' = IF result'.ok THEN "loop" ELSE "aborted"
    /\ pos' = pos + 1
    /\ UNCHANGED <<input, report>>

\* rdr.deserialize() is exhausted: the loop ends and the report starts.
MainEndOfInput ==
    /\ pc = "loop" /\ pos > Len(input)
    /\ pc' = "report"
    /\ UNCHANGED <<input, pos, log, report>>
    /\ EngineUnchanged

Reported == {report[i].client : i \in 1..Len(report)}

\* One pass of the report loop: HashMap::iter yields every key once, in any order.
MainWriteRow ==
    /\ pc = "report"
    /\ \E client \in (DOMAIN client_states) \ Reported :
          report' = Append(report, ClientCsvRecord(client, client_states[client]))
    /\ UNCHANGED <<input, pos, pc, log>>
    /\ EngineUnchanged

\* The report loop is over: main returns Ok(()).
MainExit ==
    /\ pc = "report"
    /\ (DOMAIN client_states) \ Reported = {}
    /\ pc' = "done"
    /\ UNCHANGED <<input, pos, log, report>>
    /\ EngineUnchanged

MainNext == MainRowError \/ MainHandle \/ MainEndOfInput \/ MainWriteRow \/ MainExit

MainSpec == MainInit /\ [][MainNext]_vars

\* ------------------------------------------------------------------ claims
\* What the claims below read of the last call of handle.
Called == last.kind # "None"

PrevAccount(client) ==
    IF client \in DOMAIN prev.client_states
    THEN prev.client_states[client]
    ELSE ClientState_default

FundsEvent == last.kind \in {"Deposit", "Withdrawal"}

\* The last event was a Deposit/Withdrawal the state machine must reject:
\* a frozen account, or a Withdrawal of more than is available.
FundsRejected ==
    /\ FundsEvent
    /\ \/ PrevAccount(last.client).frozen
       \/ last.kind = "Withdrawal" /\ last.amount > PrevAccount(last.client).available

StateUnchanged ==
    /\ transfers = prev.transfers
    /\ client_states = prev.client_states

\* C1: a client id is a key of the account table if and only if a Deposit or
\* Withdrawal event of that client has been successfully applied; a client
\* whose events were all dropped has no account entry.
C1_AccountIffApplied ==
    \A client \in ClientIds : client \in DOMAIN client_states <=> client \in applied

\* C2: handle returns DuplicateTxId exactly when the event is a Deposit or
\* Withdrawal whose transition succeeds and whose tx id is already a key of
\* the ledger, and Ok for every other event; a dropped Deposit/Withdrawal
\* leaves the ledger's key set as it was, so its tx id is not reserved.
C2_DuplicateIffAcceptedAndPresent ==
    Called =>
        /\ result = DuplicateTxId(last.tx)
             <=> (FundsEvent /\ ~FundsRejected /\ last.tx \in DOMAIN prev.transfers)
        /\ result # DuplicateTxId(last.tx) => result = Ok
        /\ FundsRejected => DOMAIN transfers = DOMAIN prev.transfers

C2_Witness ==
    /\ last.kind = "Withdrawal"
    /\ result = DuplicateTxId(last.tx)

\* C3: when handle returns DuplicateTxId the account table is the same as
\* before the call.
C3_DuplicateLeavesAccounts ==
    (Called /\ ~result.ok) => client_states = prev.client_states

\* C4: a ledger record that exists before a call of handle exists after it
\* with the same kind, client and amount; only has_dispute may differ.
C4_RecordsKeepKindClientAmount ==
    \A tx \in DOMAIN prev.transfers :
        /\ tx \in DOMAIN transfers
        /\ transfers[tx].kind = prev.transfers[tx].kind
        /\ transfers[tx].client = prev.transfers[tx].client
        /\ transfers[tx].amount = prev.transfers[tx].amount

\* The run hit a run-aborting error: a call of handle returned an error, or
\* a row that was read did not deserialize or convert to an Event.
RunError ==
    \/ \E i \in 1..Len(log) : ~log[i].result.ok
    \/ \E i \in 1..(pos - 1) : ~input[i].de \/ ~try_from(input[i]).ok

AllTransitions ==
    {Transition_Deposit(a) : a \in Amounts}
    \cup {Transition_Withdrawal(a) : a \in Amounts}
    \cup {Transition_DisputeDeposit(a) : a \in Amounts}
    \cup {Transition_DisputeWithdrawal(a) : a \in Amounts}
    \cup {Transition_Resolve(a) : a \in Amounts}
    \cup {Transition_Chargeback}

\* C6: a frozen account stays frozen with the same available and held
\* through every later event, no ledger record is added for its client, the
\* has_dispute flag of each of its client's records stays as it is, and
\* apply on it returns ClientFrozen for each of the six transitions.
C6_FrozenIsAbsorbing ==
    \A client \in DOMAIN prev.client_states :
        prev.client_states[client].frozen =>
            /\ client \in DOMAIN client_states
            /\ client_states[client] = prev.client_states[client]
            /\ \A tx \in DOMAIN transfers :
                  transfers[tx].client = client =>
                      /\ tx \in DOMAIN prev.transfers
                      /\ prev.transfers[tx].client = client
            /\ \A tx \in DOMAIN prev.transfers :
                  prev.transfers[tx].client = client =>
                      /\ tx \in DOMAIN transfers
                      /\ transfers[tx].has_dispute = prev.transfers[tx].has_dispute
            /\ \A tr \in AllTransitions :
                  LET r == apply(prev.client_states[client], tr)
                  IN  ~r.ok /\ r.err = "ClientFrozen"

\* The last event was a Dispute that the claim says is dropped.
DisputeDropped ==
    /\ last.kind = "Dispute"
    /\ \/ last.tx \notin DOMAIN prev.transfers
       \/ prev.transfers[last.tx].client # last.client
       \/ prev.transfers[last.tx].has_dispute
       \/ PrevAccount(last.client).frozen
       \/ /\ prev.transfers[last.tx].kind = "Deposit"
          /\ prev.transfers[last.tx].amount > PrevAccount(last.client).available

\* The last event was a Resolve that the claim says is dropped.
ResolveDropped ==
    /\ last.kind = "Resolve"
    /\ \/ last.tx \notin DOMAIN prev.transfers
       \/ prev.transfers[last.tx].client # last.client
       \/ ~prev.transfers[last.tx].has_dispute
       \/ PrevAccount(last.client).frozen

\* C7: a dropped Dispute (tx absent, other client's, already disputed,
\* insufficient funds for a deposit dispute, frozen account) and a dropped
\* Resolve (tx absent, other client's, not disputed, frozen account) return
\* Ok and leave the account table and the ledger exactly as they were.
C7_DroppedDisputeResolveIsNoOp ==
    (DisputeDropped \/ ResolveDropped) => result = Ok /\ StateUnchanged

C7_Witness ==
    /\ last.kind = "Dispute"
    /\ last.tx \in DOMAIN prev.transfers
    /\ prev.transfers[last.tx].client = last.client
    /\ prev.transfers[last.tx].kind = "Deposit"
    /\ ~prev.transfers[last.tx].has_dispute
    /\ ~PrevAccount(last.client).frozen
    /\ prev.transfers[last.tx].amount > PrevAccount(last.client).available
    /\ ~transfers[last.tx].has_dispute

\* C8: a rejected Deposit or Withdrawal returns Ok, inserts no ledger record,
\* modifies no ledger record and leaves every already-existing account as
\* it was.
C8_RejectedFundsEventFrame ==
    FundsRejected =>
        /\ result = Ok
        /\ transfers = prev.transfers
        /\ \A client \in DOMAIN prev.client_states :
              /\ client \in DOMAIN client_states
              /\ client_states[client] = prev.client_states[client]

C8_Witness ==
    /\ last.kind = "Withdrawal"
    /\ last.client \in DOMAIN prev.client_states
    /\ ~prev.client_states[last.client].frozen
    /\ prev.client_states[last.client].available = 1
    /\ last.amount = 2
    /\ DOMAIN prev.transfers # {}
    /\ StateUnchanged

\* The last event was a Dispute that took effect.
DisputeSucceeded ==
    /\ last.kind = "Dispute"
    /\ last.tx \in DOMAIN prev.transfers
    /\ ~prev.transfers[last.tx].has_dispute
    /\ transfers[last.tx].has_dispute

\* C9 as stated: a successful Dispute immediately followed by a Resolve of
\* the same tx leaves available and held as they were just before the
\* Dispute, for a deposit and for a withdrawal record.  Stated for records
\* of a positive amount, so that a violation does not rest on a negative one.
C9_DisputeThenResolveRestores ==
    (DisputeSucceeded /\ transfers[last.tx].amount > 0) =>
        LET out == handle(transfers, client_states, Event_resolve(last.client, last.tx))
        IN  /\ out.client_states[last.client].available
                 = prev.client_states[last.client].available
            /\ out.client_states[last.client].held
                 = prev.client_states[last.client].held

\* C9 amended: a successful Dispute immediately followed by a Resolve of the
\* same tx leaves held as it was before the Dispute and clears the flag
\* again; available is as it was before the Dispute for a Deposit record (the
\* pair gives back the very state it started from), and is greater by the
\* record's amount for a Withdrawal record, so that every repetition of the
\* pair on a withdrawal adds the amount to available and to total once more.
C9_DisputeThenResolve ==
    DisputeSucceeded =>
        LET rec == prev.transfers[last.tx]
            before == prev.client_states[last.client]
            out == handle(transfers, client_states, Event_resolve(last.client, last.tx))
            after == out.client_states[last.client]
        IN  /\ out.result = Ok
            /\ out.transfers = prev.transfers
            /\ after.held = before.held
            /\ after.frozen = before.frozen
            /\ rec.kind = "Deposit" =>
                  /\ after.available = before.available
                  /\ out.client_states = prev.client_states
            /\ rec.kind = "Withdrawal" =>
                  /\ after.available = before.available + rec.amount
                  /\ total(after) = total(before) + rec.amount

C9_Witness ==
    /\ DisputeSucceeded
    /\ transfers[last.tx].kind = "Withdrawal"
    /\ transfers[last.tx].amount = 2
    /\ client_states[last.client].held = 2

\* C10: a Chargeback that references a Deposit record owned by the event's
\* client, on an unfrozen account, freezes the account whether or not the
\* record is under dispute.
C10_ChargebackFreezesWithoutDispute ==
    ( /\ last.kind = "Chargeback"
      /\ last.tx \in DOMAIN prev.transfers
      /\ prev.transfers[last.tx].kind = "Deposit"
      /\ prev.transfers[last.tx].client = last.client
      /\ ~PrevAccount(last.client).frozen )
    => /\ last.client \in DOMAIN client_states
       /\ client_states[last.client].frozen

C10_Witness ==
    /\ last.kind = "Chargeback"
    /\ last.tx \in DOMAIN prev.transfers
    /\ prev.transfers[last.tx].kind = "Deposit"
    /\ prev.transfers[last.tx].client = last.client
    /\ ~prev.transfers[last.tx].has_dispute
    /\ ~PrevAccount(last.client).frozen
    /\ client_states[last.client].frozen

\* The last event was a Chargeback that the claim says is dropped.
ChargebackDropped ==
    /\ last.kind = "Chargeback"
    /\ \/ last.tx \notin DOMAIN prev.transfers
       \/ prev.transfers[last.tx].kind = "Withdrawal"
       \/ prev.transfers[last.tx].client # last.client

\* C11: a Chargeback whose tx id is absent from the ledger, or references a
\* Withdrawal record, or a record owned by another client than the event's,
\* returns Ok and leaves every account (frozen flags included) and every
\* ledger record as they were.
C11_DroppedChargebackIsNoOp ==
    ChargebackDropped => result = Ok /\ StateUnchanged

C11_Witness ==
    /\ last.kind = "Chargeback"
    /\ last.tx \in DOMAIN prev.transfers
    /\ prev.transfers[last.tx].kind = "Withdrawal"
    /\ prev.transfers[last.tx].client = last.client
    /\ ~PrevAccount(last.client).frozen
    /\ StateUnchanged

\* The last event was a Dispute of a record of the given kind, by its owner,
\* of a record not under dispute, on an unfrozen account.
DisputeOf(kind) ==
    /\ last.kind = "Dispute"
    /\ last.tx \in DOMAIN prev.transfers
    /\ prev.transfers[last.tx].kind = kind
    /\ prev.transfers[last.tx].client = last.client
    /\ ~prev.transfers[last.tx].has_dispute
    /\ ~PrevAccount(last.client).frozen

\* Every account but the given client's, and every record but the given tx's,
\* is as before the last call; the given record differs at most in has_dispute.
OnlyTouched(client, tx) ==
    /\ DOMAIN client_states = DOMAIN prev.client_states
    /\ \A c \in DOMAIN client_states \ {client} :
          client_states[c] = prev.client_states[c]
    /\ DOMAIN transfers = DOMAIN prev.transfers
    /\ \A x \in DOMAIN transfers \ {tx} : transfers[x] = prev.transfers[x]
    /\ \A x \in DOMAIN transfers \cap {tx} :
          [transfers[x] EXCEPT !.has_dispute = FALSE]
            = [prev.transfers[x] EXCEPT !.has_dispute = FALSE]

\* C12: a successful Dispute of a Deposit record takes exactly the record's
\* stored amount from the owner's available, adds exactly that amount to
\* held (total unchanged) and sets has_dispute; a second Dispute of the same
\* tx while it is under dispute changes nothing.
C12_DisputeDepositMovesAmount ==
    ( /\ DisputeOf("Deposit")
      /\ prev.transfers[last.tx].amount <= PrevAccount(last.client).available )
    => LET rec == prev.transfers[last.tx]
           before == prev.client_states[last.client]
           after == client_states[last.client]
           again == handle(transfers, client_states, last)
       IN  /\ result = Ok
           /\ after.available = before.available - rec.amount
           /\ after.held = before.held + rec.amount
           /\ total(after) = total(before)
           /\ after.frozen = before.frozen
           /\ transfers[last.tx].has_dispute
           /\ OnlyTouched(last.client, last.tx)
           /\ again.result = Ok
           /\ again.transfers = transfers
           /\ again.client_states = client_states

C12_Witness ==
    /\ DisputeOf("Deposit")
    /\ prev.transfers[last.tx].amount = 2
    /\ prev.client_states[last.client].available = 3
    /\ client_states[last.client].available = 1
    /\ client_states[last.client].held = 2
    /\ transfers[last.tx].has_dispute

\* C13: a Dispute of a Withdrawal record by its owner, not already disputed,
\* on an unfrozen account always succeeds, whatever the available funds:
\* held grows by exactly the record's stored amount, available is unchanged,
\* total grows by that amount and has_dispute becomes true.
C13_DisputeWithdrawalHoldsAmount ==
    DisputeOf("Withdrawal")
    => LET rec == prev.transfers[last.tx]
           before == prev.client_states[last.client]
           after == client_states[last.client]
       IN  /\ result = Ok
           /\ after.held = before.held + rec.amount
           /\ after.available = before.available
           /\ total(after) = total(before) + rec.amount
           /\ after.frozen = before.frozen
           /\ transfers[last.tx].has_dispute
           /\ OnlyTouched(last.client, last.tx)

C13_Witness ==
    /\ DisputeOf("Withdrawal")
    /\ prev.transfers[last.tx].amount = 2
    /\ prev.client_states[last.client].available = 0
    /\ client_states[last.client].available = 0
    /\ client_states[last.client].held = 2
    /\ transfers[last.tx].has_dispute

\* C14: a Resolve of a Deposit record under dispute, by its owner, on an
\* unfrozen account adds exactly the record's stored amount to available,
\* takes exactly that amount from held and clears has_dispute; a second
\* Resolve of the same tx with no Dispute in between changes nothing.
C14_ResolveDepositReleasesAmount ==
    ( /\ last.kind = "Resolve"
      /\ last.tx \in DOMAIN prev.transfers
      /\ prev.transfers[last.tx].kind = "Deposit"
      /\ prev.transfers[last.tx].client = last.client
      /\ prev.transfers[last.tx].has_dispute
      /\ ~PrevAccount(last.client).frozen )
    => LET rec == prev.transfers[last.tx]
           before == prev.client_states[last.client]
           after == client_states[last.client]
           again == handle(transfers, client_states, last)
       IN  /\ result = Ok
           /\ after.available = before.available + rec.amount
           /\ after.held = before.held - rec.amount
           /\ after.frozen = before.frozen
           /\ ~transfers[last.tx].has_dispute
           /\ OnlyTouched(last.client, last.tx)
           /\ again.result = Ok
           /\ again.transfers = transfers
           /\ again.client_states = client_states

C14_Witness ==
    /\ last.kind = "Resolve"
    /\ last.tx \in DOMAIN prev.transfers
    /\ prev.transfers[last.tx].kind = "Deposit"
    /\ prev.transfers[last.tx].client = last.client
    /\ prev.transfers[last.tx].has_dispute
    /\ prev.transfers[last.tx].amount = 2
    /\ prev.client_states[last.client].held = 2
    /\ client_states[last.client].held = 0
    /\ client_states[last.client].available = 2
    /\ ~transfers[last.tx].has_dispute

\* C15: in every reachable state every account's available is greater than
\* or equal to zero, whatever amounts the events carry.
C15_AvailableNonNegative ==
    \A client \in DOMAIN client_states : client_states[client].available >= 0

\* The sum of the amounts of the first n events of main's log.
RECURSIVE LogAmountSum(_)
LogAmountSum(n) == IF n = 0 THEN 0 ELSE LogAmountSum(n - 1) + log[n].event.amount

\* Every event handled so far is a Deposit of the given client, and no two
\* of them carry the same tx id.
OnlyDepositsOf(client) ==
    /\ Len(log) > 0
    /\ \A i \in 1..Len(log) :
          log[i].event.kind = "Deposit" /\ log[i].event.client = client
    /\ \A i, j \in 1..Len(log) : i # j => log[i].event.tx # log[j].event.tx

\* C16: after a sequence of Deposit events only, of one client and with
\* pairwise distinct tx ids, the account's available is the exact sum of the
\* deposited amounts, held is zero, and the ledger holds one Deposit record
\* per event.
C16_DepositsSumUp ==
    \A client \in ClientIds :
        OnlyDepositsOf(client) =>
            /\ \A i \in 1..Len(log) : log[i].result = Ok
            /\ DOMAIN client_states = {client}
            /\ client_states[client].available = LogAmountSum(Len(log))
            /\ client_states[client].held = 0
            /\ ~client_states[client].frozen
            /\ DOMAIN transfers = {log[i].event.tx : i \in 1..Len(log)}
            /\ Cardinality(DOMAIN transfers) = Len(log)
            /\ \A i \in 1..Len(log) :
                  transfers[log[i].event.tx]
                    = Transaction_deposit(client, log[i].event.amount)

C16_Witness ==
    /\ OnlyDepositsOf(0)
    /\ Len(log) = 2
    /\ log[1].event.amount = 1
    /\ log[2].event.amount = 2
    /\ client_states[0].available = 3

\* C17: on an unfrozen account the Withdrawal transition succeeds if and
\* only if amount <= available; on success available decreases by exactly
\* the amount and held is unchanged, on failure the result is
\* InsufficientFunds and the account keeps its values.
C17_WithdrawalIffCovered ==
    (last.kind = "Withdrawal" /\ ~PrevAccount(last.client).frozen) =>
        LET account == PrevAccount(last.client)
            r == apply(account, Transition_Withdrawal(last.amount))
        IN  /\ r.ok <=> last.amount <= account.available
            /\ r.ok =>
                  /\ r.state.available = account.available - last.amount
                  /\ r.state.held = account.held
                  /\ r.state.frozen = account.frozen
                  /\ client_states[last.client] = r.state
            /\ ~r.ok =>
                  /\ r.err = "InsufficientFunds"
                  /\ client_states[last.client] = account

C17_Witness ==
    /\ last.kind = "Withdrawal"
    /\ last.client \in DOMAIN prev.client_states
    /\ ~prev.client_states[last.client].frozen
    /\ prev.client_states[last.client].available = 2
    /\ last.amount = 2
    /\ result = Ok
    /\ client_states[last.client].available = 0
    /\ client_states[last.client].held = prev.client_states[last.client].held

\* The last event was a Chargeback that took effect.
ChargebackSucceeded ==
    /\ last.kind = "Chargeback"
    /\ last.tx \in DOMAIN prev.transfers
    /\ prev.transfers[last.tx].kind = "Deposit"
    /\ prev.transfers[last.tx].client = last.client
    /\ ~PrevAccount(last.client).frozen

\* C18: a successful Chargeback changes only the frozen flag of the owning
\* account: its available and held keep their values, every other account
\* is unchanged, and every ledger record, the referenced one included,
\* keeps its has_dispute flag.
C18_ChargebackOnlyFreezes ==
    ChargebackSucceeded =>
        /\ result = Ok
        /\ DOMAIN client_states = DOMAIN prev.client_states
        /\ last.client \in DOMAIN client_states
        /\ client_states[last.client]
             = [prev.client_states[last.client] EXCEPT !.frozen = TRUE]
        /\ \A c \in DOMAIN client_states \ {last.client} :
              client_states[c] = prev.client_states[c]
        /\ transfers = prev.transfers

C18_Witness ==
    /\ ChargebackSucceeded
    /\ prev.transfers[last.tx].has_dispute
    /\ transfers[last.tx].has_dispute
    /\ client_states[last.client].frozen
    /\ client_states[last.client].held = 2
    /\ client_states[last.client].available = 0

\* The ledger records of a client that are under dispute.
DisputedOf(client) ==
    {tx \in DOMAIN transfers :
        transfers[tx].client = client /\ transfers[tx].has_dispute}

\* The sum of the stored amounts of a set of ledger records.
RECURSIVE AmountSum(_)
AmountSum(txs) ==
    IF txs = {} THEN 0
    ELSE LET tx == CHOOSE x \in txs : TRUE
         IN  transfers[tx].amount + AmountSum(txs \ {tx})

\* The account of a client, or the default one if it has none.
AccountOf(client) ==
    IF client \in DOMAIN client_states
    THEN client_states[client]
    ELSE ClientState_default

\* C19: as long as every call of handle has returned Ok, each client's held
\* is the sum of the stored amounts of that client's records under dispute
\* (zero when none is), and so is not negative when those amounts are not.
C19_HeldIsDisputedSum ==
    result.ok =>
        \A client \in ClientIds :
            /\ AccountOf(client).held = AmountSum(DisputedOf(client))
            /\ (\A tx \in DisputedOf(client) : transfers[tx].amount >= 0)
                  => AccountOf(client).held >= 0

C19_Witness ==
    /\ result.ok
    /\ Cardinality(DisputedOf(0)) = 2
    /\ client_states[0].held = 3

\* C20: handling an event of one client never changes the available, held
\* or frozen value of another client's account, and never changes the
\* has_dispute flag of a ledger record owned by another client, whatever
\* tx id the event references.
C20_OtherClientsUntouched ==
    Called =>
        /\ \A client \in ClientIds \ {last.client} :
              /\ client \in DOMAIN client_states <=> client \in DOMAIN prev.client_states
              /\ AccountOf(client) = PrevAccount(client)
        /\ \A tx \in DOMAIN prev.transfers :
              prev.transfers[tx].client # last.client =>
                  /\ tx \in DOMAIN transfers
                  /\ transfers[tx].has_dispute = prev.transfers[tx].has_dispute

\* The last event was a Dispute, Resolve or Chargeback whose ownership check
\* passed, so that the arm went on to look the account up.
OwnerLookup ==
    /\ last.kind \in {"Dispute", "Resolve", "Chargeback"}
    /\ last.tx \in DOMAIN prev.transfers
    /\ prev.transfers[last.tx].client = last.client

\* C21: in every reachable state the account table has an entry for the
\* client of every ledger record, so the account lookup of the Dispute,
\* Resolve and Chargeback arms never misses once the ownership check has
\* passed.
C21_RecordOwnerHasAccount ==
    /\ \A tx \in DOMAIN transfers : transfers[tx].client \in DOMAIN client_states
    /\ OwnerLookup => last.client \in DOMAIN prev.client_states

C21_Witness ==
    /\ OwnerLookup
    /\ last.kind = "Resolve"
    /\ last.client \in DOMAIN prev.client_states
    /\ Cardinality(DOMAIN transfers) = 2
    /\ Cardinality({transfers[tx].client : tx \in DOMAIN transfers}) = 2
    /\ Cardinality(DOMAIN client_states) = 2

====
